---- MODULE Spec2Model ----
(***************************************************************************)
(* Model of the multi-objective multiwalker engine,                        *)
(* src/momadm_benchmarks/envs/multiwalker/multiwalker_base.py              *)
(* (MOMultiWalkerEnv: __init__, _share_rewards, reset, step,               *)
(* scroll_subroutine).                                                     *)
(*                                                                         *)
(* Numbers.  Raw rewards are integers.  A mean over a row of NumObjectives *)
(* entries is kept as the row sum, i.e. in units of 1/NumObjectives.       *)
(* local_ratio is kept in units of 1/RatioDen.  last_rewards is kept in    *)
(* units of 1/(NumObjectives*RatioDen*RatioDen), which makes               *)
(* global*(1-r) + (raw*r)*r exact.  Positions are in units of              *)
(* package_length, so that (a - b) / package_length is a - b.  A noisy     *)
(* reading normal(m, 1e-3) is m*NoiseDen + z in units of 1/NoiseDen, z     *)
(* the next draw of the seeded generator np_random.                        *)
(*                                                                         *)
(* The rigid-body world (Box2D) and the PettingZoo base class are outside  *)
(* the repository: world.Step is a nondeterministic choice of the bodies'  *)
(* new positions and of the contact flags it raises.                       *)
(***************************************************************************)
EXTENDS Integers, Sequences, FiniteSets, TLC

\* ---------------------------------------------------------------- constants

\* n_walkers as passed to the base constructor (hard-coded, line 86).
N == 3
\* length of a reward vector: shape=(3,) (lines 47, 100, 103, 125, 162).
NumObjectives == 3
\* the hard-coded reward magnitudes handed to the base constructor.
FORWARD_REWARD == 1
TERMINATE_REWARD == -100
FALL_REWARD == -10
\* position_noise = angle_noise = 1e-3: one noise unit is 1/NoiseDen.
NoiseDen == 1000

\* ------------------------------------------------------------------- bounds

\* The finish threshold (terrain_length - TERRAIN_GRASS) * TERRAIN_STEP of
\* line 215 in model length units: the package's x ranges over -1..FinishX+1.
FinishX == 1

\* local_ratio is a multiple of 1/RatioDen.
RatioDen == 10
\* is_last steps per episode (frames is capped by the guards).
MaxFrames == 2
\* the seeded generator has RngMod states.
RngMod == 2

Walkers == 0 .. (N - 1)
Channels == 0 .. (NumObjectives - 1)
\* package.position.x after a world step: negative (fell off the left end),
\* before the finish threshold, past it.
PackageXs == (-1) .. (FinishX + 1)
\* package.position.x after _generate_package.
PackageStartX == FinishX
\* action.reshape(4): the four joint torques.
Actions == {<<1, -1, 1, -1>>}
LocalRatios == {0, 3, RatioDen}

None == [tag |-> "None"]

VARIABLES
    cfg,                  \* the attributes the base constructor stored
    hull,                 \* walkers[i].hull: a body, or None once destroyed
    package,              \* the package body
    fallen_walkers,       \* contact flags of the walkers
    game_over,            \* contact flag of the package
    prev_package_shaping,
    scroll,
    frames,
    np_random,            \* state of the seeded generator
    last_rewards,
    last_obs,
    last_dones,
    rewards,              \* the reward matrix the latest scroll_subroutine returned
    call,                 \* the latest call and what it did, in order
    episode_ch0,          \* per agent: sum of rewards[a][0] over the episode's rounds
    train                 \* the locals of iql.train, or NoTrain when it is not running

vars == <<cfg, hull, package, fallen_walkers, game_over, prev_package_shaping,
          scroll, frames, np_random, last_rewards, last_obs, last_dones,
          rewards, call, episode_ch0, train>>

\* ------------------------------------------------------------ numpy helpers

RECURSIVE SumTo(_, _)
SumTo(f, k) == IF k < 0 THEN 0 ELSE f[k] + SumTo(f, k - 1)

\* np.zeros(shape=(3,))
ZeroVector == [c \in Channels |-> 0]
\* np.array([np.zeros(shape=(3,)) for _ in range(n_walkers)])
ZeroMatrix == [a \in Walkers |-> ZeroVector]

\* rewards[:][k] = v: rewards[:] is the whole array, so [k] selects ROW k and
\* the scalar is broadcast over that row.
\* (The column assignment rewards[:, k] = v, for comparison.)
SetRowMutant(m, k, v) == [a \in Walkers |-> [m[a] EXCEPT ![k] = v]]
SetRow(m, k, v) == [m EXCEPT ![k] = [c \in Channels |-> v]]

\* rewards[i][c] = v
SetCell(m, i, c, v) == [m EXCEPT ![i][c] = v]

\* ------------------------------------------------------- bodies and sensors

\* A walker hull standing s length units right of its start position
\* (start_x is spaced one unit per walker).
Body(i, s) == [x |-> i + s, y |-> s, angle |-> s]
Formation(s) == [i \in Walkers |-> Body(i, s)]

\* BipedalWalker.get_observation(): the local sensor vector (its first entry
\* is the hull angle; the model keeps that entry only).
GetObservation(body) == <<body.angle>>

\* np.zeros_like(self.observation_space[i].low): local sensors, two neighbor
\* slots of two entries, three package entries.
ObsLen == Len(GetObservation(Body(0, 0))) + 4 + 3
ZeroObs == [k \in 1 .. ObsLen |-> 0]

\* self.np_random.normal(mean, 1e-3): one draw of the seeded generator.
Draw(r) == (r % 3) - 1
NextRng(r) == (r + 1) % RngMod
Normal(mean, r) == mean * NoiseDen + Draw(r)

\* One pass of "for j in [i - 1, i + 1]" (lines 175-184); acc = [obs, rng].
\* (NeighborSlotNoisyPad: the same without the test for a destroyed neighbor.)
NeighborSlotNoisyPad(i, j, h, acc) ==
    IF j < 0 \/ j = N
    THEN [obs |-> acc.obs \o <<0, 0>>, rng |-> acc.rng]
    ELSE IF h[j] = None
    THEN [obs |-> acc.obs \o <<Normal(0, acc.rng), Normal(0, NextRng(acc.rng))>>,
          rng |-> NextRng(NextRng(acc.rng))]
    ELSE [obs |-> acc.obs \o <<Normal(h[j].x - h[i].x, acc.rng),
                               Normal(h[j].y - h[i].y, NextRng(acc.rng))>>,
          rng |-> NextRng(NextRng(acc.rng))]
NeighborSlot(i, j, h, acc) ==
    IF j < 0 \/ j = N \/ h[j] = None
    THEN [obs |-> acc.obs \o <<0, 0>>, rng |-> acc.rng]
    ELSE [obs |-> acc.obs \o <<Normal(h[j].x - h[i].x, acc.rng),
                               Normal(h[j].y - h[i].y, NextRng(acc.rng))>>,
          rng |-> NextRng(NextRng(acc.rng))]

\* Lines 185-189: the package readings; acc = [obs, rng].
PackageSlot(i, h, pk, acc) ==
    [obs |-> acc.obs \o <<Normal(pk.x - h[i].x, acc.rng),
                          Normal(pk.y - h[i].y, NextRng(acc.rng)),
                          Normal(pk.angle, NextRng(NextRng(acc.rng)))>>,
     rng |-> NextRng(NextRng(NextRng(acc.rng)))]

\* Lines 166-190 for walker i; st = [obs: rows so far, rng, xpos, read].
\* read is the set of walkers whose hull position was read.
\* (WalkerObsNoSkip: the same without the skip of lines 166-168, reading the
\* destroyed walker at its start position.)
WalkerObsNoSkip(i, h, pk, st) ==
    LET hh == [h EXCEPT ![i] = IF h[i] = None THEN Body(i, 0) ELSE h[i]]
        a0 == [obs |-> <<>>, rng |-> st.rng]
        a1 == NeighborSlot(i, i - 1, hh, a0)
        a2 == NeighborSlot(i, i + 1, hh, a1)
        a3 == PackageSlot(i, hh, pk, a2)
    IN  [obs |-> Append(st.obs, GetObservation(hh[i]) \o a3.obs),
         rng |-> a3.rng,
         xpos |-> [st.xpos EXCEPT ![i] = hh[i].x],
         read |-> st.read \cup {i}]
WalkerObs(i, h, pk, st) ==
    IF h[i] = None
    THEN [st EXCEPT !.obs = Append(st.obs, ZeroObs)]
    ELSE LET a0 == [obs |-> <<>>, rng |-> st.rng]
             a1 == NeighborSlot(i, i - 1, h, a0)
             a2 == NeighborSlot(i, i + 1, h, a1)
             a3 == PackageSlot(i, h, pk, a2)
         IN  [obs |-> Append(st.obs, GetObservation(h[i]) \o a3.obs),
              rng |-> a3.rng,
              xpos |-> [st.xpos EXCEPT ![i] = h[i].x],
              read |-> st.read \cup {i}]

\* "for i in range(self.n_walkers)" (line 165), from walker i on.
RECURSIVE ObsLoop(_, _, _, _)
ObsLoop(i, h, pk, st) ==
    IF i = N THEN st ELSE ObsLoop(i + 1, h, pk, WalkerObs(i, h, pk, st))

\* ------------------------------------------------------------------ rewards

\* BipedalWalker._destroy(): drops the body; a second call changes nothing.
\* (DestroyToggle: a second call puts a body back.)
DestroyToggle(h, i) == [h EXCEPT ![i] = IF h[i] = None THEN Body(i, 0) ELSE None]
Destroy(h, i) == [h EXCEPT ![i] = None]

\* One pass of the loop of lines 200-207; st = [rewards, done, hull].
FallStep(i, c, fallen, st) ==
    IF fallen[i]
    THEN LET r1 == SetCell(st.rewards, i, 1, c.fall_reward)
             h1 == IF c.remove_on_fall THEN Destroy(st.hull, i) ELSE st.hull
             r2 == IF ~c.terminate_on_fall
                   THEN SetRow(r1, 1, c.terminate_reward)
                   ELSE r1
         IN  [rewards |-> r2,
              done |-> [st.done EXCEPT ![i] = TRUE],
              hull |-> h1]
    ELSE st

RECURSIVE FallLoop(_, _, _, _)
FallLoop(i, c, fallen, st) ==
    IF i = N THEN st ELSE FallLoop(i + 1, c, fallen, FallStep(i, c, fallen, st))

\* Lines 209-210: a fall ends the round for the whole team.
\* (TeamDoneOff: the same with these two lines left out.)
TeamDoneOff(c, fallen, done) == done
TeamDone(c, fallen, done) ==
    IF c.terminate_on_fall /\ Cardinality({i \in Walkers : fallen[i]}) > 0
    THEN [i \in Walkers |-> TRUE]
    ELSE done

\* Lines 212-216; st = [rewards, done].
\* (PackageOutcomeNoElif: the finish tested in its own "if", after a penalty
\* that any end of the episode gets.)
PackageOutcomeNoElif(c, pk, go, st) ==
    IF go \/ pk.x < 0 \/ pk.x > FinishX
    THEN [rewards |-> SetRow(st.rewards, 2, c.terminate_reward),
          done |-> IF pk.x > FinishX THEN [i \in Walkers |-> TRUE] ELSE st.done]
    ELSE st
\* (PackageOutcomeTwoIfs: the finish tested whether or not the package failed.)
PackageOutcomeTwoIfs(c, pk, go, st) ==
    [rewards |-> IF go \/ pk.x < 0
                 THEN SetRow(st.rewards, 2, c.terminate_reward)
                 ELSE st.rewards,
     done |-> IF pk.x > FinishX THEN [i \in Walkers |-> TRUE] ELSE st.done]
PackageOutcome(c, pk, go, st) ==
    IF go \/ pk.x < 0
    THEN [rewards |-> SetRow(st.rewards, 2, c.terminate_reward), done |-> st.done]
    ELSE IF pk.x > FinishX
    THEN [rewards |-> st.rewards, done |-> [i \in Walkers |-> TRUE]]
    ELSE st

\* scroll_subroutine (lines 154-220).  Returns what it returns (rewards, done,
\* obs) and what it leaves in self (hull, prev_package_shaping, scroll, rng),
\* with read, the walkers whose position was read.
ScrollSubroutine(c, h, pk, fallen, go, prev, rng) ==
    LET o  == ObsLoop(0, h, pk, [obs |-> <<>>, rng |-> rng,
                                 xpos |-> [i \in Walkers |-> 0], read |-> {}])
        package_shaping == c.forward_reward * pk.x
        r0 == SetRow(ZeroMatrix, 0, package_shaping - prev)
        f  == FallLoop(0, c, fallen,
                       [rewards |-> r0, done |-> [i \in Walkers |-> FALSE], hull |-> h])
        d1 == TeamDone(c, fallen, f.done)
        p  == PackageOutcome(c, pk, go, [rewards |-> f.rewards, done |-> d1])
    IN  [rewards |-> p.rewards,
         done |-> p.done,
         obs |-> o.obs,
         hull |-> f.hull,
         prev_package_shaping |-> package_shaping,
         scroll |-> SumTo(o.xpos, N - 1),
         rng |-> o.rng,
         read |-> o.read]

\* _share_rewards (lines 102-108): shared_rewards[i] = rewards[:][i].mean() for
\* i in range(len(rewards)); rewards[:][i] is ROW i.  In units of
\* 1/NumObjectives.
\* (ShareRewardsByChannel: the mean of COLUMN i, rewards[:, i].mean().)
ShareRewardsByChannel(rw) ==
    [i \in Channels |-> SumTo([a \in Walkers |-> rw[a][i]], N - 1)]
ShareRewards(rw) ==
    [i \in 0 .. (N - 1) |-> SumTo(rw[i], NumObjectives - 1)]

\* Lines 141-146: local_reward = rewards * local_ratio;
\* last_rewards = global_reward * (1.0 - local_ratio) + local_reward * local_ratio.
\* global_reward has shape (3,) and is broadcast over the rows.
\* In units of 1/(NumObjectives*RatioDen*RatioDen).
\* (BlendOnce: global*(1-r) + raw*r, the ratio applied once.)
\* (BlendSwapped: the two weights exchanged.)
BlendSwapped(rw, g, ratio) ==
    [a \in Walkers |-> [k \in Channels |->
        g[k] * ratio * RatioDen
        + rw[a][k] * (RatioDen - ratio) * (RatioDen - ratio) * NumObjectives]]
\* (BlendScalar: one scalar per agent, the sum over the channels.)
BlendScalar(rw, g, ratio) ==
    [a \in Walkers |-> [k \in {0} |->
        SumTo([c \in Channels |->
                 g[c] * (RatioDen - ratio) * RatioDen
                 + rw[a][c] * ratio * ratio * NumObjectives], NumObjectives - 1)]]
BlendOnce(rw, g, ratio) ==
    [a \in Walkers |-> [k \in Channels |->
        g[k] * (RatioDen - ratio) * RatioDen
        + rw[a][k] * ratio * RatioDen * NumObjectives]]
Blend(rw, g, ratio) ==
    LET local_reward == [a \in Walkers |-> [k \in Channels |-> rw[a][k] * ratio]]
    IN  [a \in Walkers |-> [k \in Channels |->
            g[k] * (RatioDen - ratio) * RatioDen
            + (local_reward[a][k] * ratio) * NumObjectives]]

\* -------------------------------------------------------------------- world

Package(x) == [x |-> x, y |-> 1, angle |-> 0]

\* self.world.Step(1.0 / FPS, 6 * 30, 2 * 30) (line 136): dt in units of
\* 1/FPS, velocity and position iterations.
WorldStepArgs == <<1, 6 * 30, 2 * 30>>

\* What one world step can leave behind: the package moved, the live hulls,
\* which carry it, moved with it, and the contact listener's flags, which it
\* only ever raises (a destroyed walker has no body left to touch the
\* ground).
WorldStep(h, pk, fallen, go) ==
    { [hull |-> [i \in Walkers |->
                    IF h[i] = None THEN None ELSE Body(i, x - PackageStartX)],
       package |-> Package(x),
       fallen_walkers |-> [i \in Walkers |-> fallen[i] \/ i \in F],
       game_over |-> (go \/ g)] :
      x \in PackageXs, F \in SUBSET {i \in Walkers : h[i] # None}, g \in BOOLEAN }

\* ------------------------------------------------------------- construction

NoTrain == [tag |-> "NoTrain"]

\* What the base constructor stores, given the arguments of lines 86-97:
\* local_ratio = 1 - shared_reward.
Config(shared_reward, terminate_on_fall, remove_on_fall) ==
    [local_ratio |-> IF shared_reward THEN 0 ELSE RatioDen,
     terminate_on_fall |-> terminate_on_fall,
     remove_on_fall |-> remove_on_fall,
     forward_reward |-> FORWARD_REWARD,
     terminate_reward |-> TERMINATE_REWARD,
     fall_reward |-> FALL_REWARD]

\* The entry of last_obs before the first reset ([None] * n_walkers).
NoObs == <<>>

\* destroyed: the walkers whose hull was None when the call was made; seed:
\* the seed a reset was given (-1: none); again: the reset follows a reset
\* with the same seed; args: the constructor's arguments.
NoCall(op) ==
    [op |-> op, agent_id |-> -1, is_last |-> FALSE, action |-> <<>>,
     events |-> <<>>, world_step |-> <<>>, read |-> {},
     destroyed |-> {}, seed |-> -1, again |-> FALSE, args |-> <<>>]

Destroyed(h) == {i \in Walkers : h[i] = None}

\* The state __init__ leaves (lines 85-100), for a stored configuration c.
Constructed(c) ==
    /\ cfg = c
    /\ call.op = "__init__"
    /\ hull = Formation(0)
    /\ package = None
    /\ fallen_walkers = [i \in Walkers |-> FALSE]
    /\ game_over = FALSE
    /\ prev_package_shaping = 0
    /\ scroll = 0
    /\ frames = 0
    /\ np_random \in 0 .. (RngMod - 1)
    /\ last_rewards = ZeroMatrix
    /\ last_obs = [i \in 1 .. N |-> NoObs]
    /\ last_dones = [i \in Walkers |-> FALSE]
    /\ rewards = ZeroMatrix
    /\ episode_ch0 = [i \in Walkers |-> 0]

\* __init__ (lines 56-100): whatever the caller passes, the base constructor
\* gets shared_reward=True, terminate_on_fall=True, remove_on_fall=True.
Init ==
    \E n_walkers \in {N - 1, N}, shared_reward \in BOOLEAN,
       terminate_on_fall \in BOOLEAN, remove_on_fall \in BOOLEAN :
        /\ call = [NoCall("__init__") EXCEPT !.args =
                      [n_walkers |-> n_walkers, shared_reward |-> shared_reward,
                       terminate_on_fall |-> terminate_on_fall,
                       remove_on_fall |-> remove_on_fall]]
        /\ train = NoTrain
        /\ Constructed(Config(TRUE, TRUE, TRUE))

\* The engine with self.local_ratio set directly: the input of the blend of
\* lines 141-146 that the constructor cannot reach.
InitRatio ==
    \E ratio \in LocalRatios :
        /\ call = NoCall("__init__")
        /\ train = NoTrain
        /\ Constructed([Config(TRUE, TRUE, TRUE) EXCEPT !.local_ratio = ratio])

\* The engine with self.terminate_on_fall = False and self.remove_on_fall
\* set directly: inputs of scroll_subroutine (lines 203-206) that the
\* constructor cannot reach.
InitFall ==
    \E remove_on_fall \in BOOLEAN :
        /\ call = NoCall("__init__")
        /\ train = NoTrain
        /\ Constructed(Config(TRUE, FALSE, remove_on_fall))

\* The engine with self.terminate_on_fall set directly (lines 205-210), and
\* remove_on_fall as the constructor leaves it.
InitTerminate ==
    \E terminate_on_fall \in BOOLEAN :
        /\ call = NoCall("__init__")
        /\ train = NoTrain
        /\ Constructed(Config(TRUE, terminate_on_fall, TRUE))

\* The engine with self.remove_on_fall set directly (line 203), and
\* terminate_on_fall as the constructor leaves it.
InitRemove ==
    \E remove_on_fall \in BOOLEAN :
        /\ call = NoCall("__init__")
        /\ train = NoTrain
        /\ Constructed(Config(TRUE, TRUE, remove_on_fall))

\* ------------------------------------------------------------------ actions

\* reset (lines 118-126).  super().reset() runs setup() (walkers rebuilt at
\* their start positions), clears the contact flags, prev_package_shaping
\* and scroll, rebuilds the package, reads the first observations with
\* scroll_subroutine and clears last_dones and frames; line 125 then sets
\* last_rewards.
\* (LastRewardsKept: line 125 left out.)
LastRewardsKept(old) == old
LastRewardsAfterReset(old) == ZeroMatrix

ResetFrom(rng, seed) ==
    \E r \in {ScrollSubroutine(cfg, Formation(0), Package(PackageStartX),
                                [i \in Walkers |-> FALSE], FALSE, 0, rng)} :
        /\ hull' = r.hull
        /\ package' = Package(PackageStartX)
        /\ fallen_walkers' = [i \in Walkers |-> FALSE]
        /\ game_over' = FALSE
        /\ prev_package_shaping' = r.prev_package_shaping
        /\ scroll' = r.scroll
        /\ frames' = 0
        /\ np_random' = r.rng
        /\ last_rewards' = LastRewardsAfterReset(last_rewards)
        /\ last_obs' = r.obs
        /\ last_dones' = [i \in Walkers |-> FALSE]
        /\ rewards' = ZeroMatrix
        /\ call' = [NoCall("reset") EXCEPT !.events = <<"scroll_subroutine">>,
                                           !.read = r.read,
                                           !.destroyed = Destroyed(hull),
                                           !.seed = seed,
                                           !.again = (/\ call.op = "reset"
                                                      /\ seed # -1
                                                      /\ call.seed = seed)]
        /\ episode_ch0' = [i \in Walkers |-> 0]
        /\ UNCHANGED <<cfg, train>>

\* reset() on the engine as it is.
Reset == ResetFrom(np_random, -1)

\* reset(seed) as the environment's callers use it (env.reset(seed=42)): the
\* generator is seeded, then the engine is reset.
Seeds == {42, 7}
\* (SeedIgnored: the generator left as it is.)
SeedIgnored(seed, rng) == rng
SeedRng(seed, rng) == seed % RngMod
ResetSeeded(seed) == ResetFrom(SeedRng(seed, np_random), seed)

\* Line 132: assert self.walkers[agent_id].hull is not None.
\* (HullAssertOff: the same without the assertion.)
HullAssertOff(h, agent_id) == TRUE
HullAssert(h, agent_id) == h[agent_id] # None

\* Line 135: if is_last.
\* (StepsWorldAlways: the branch taken on every call.)
StepsWorldAlways(is_last) == TRUE
StepsWorld(is_last) == is_last

\* step(action, agent_id, is_last) (lines 128-151), after the first reset.
Step(action, agent_id, is_last) ==
    /\ package # None
    /\ IF ~HullAssert(hull, agent_id)
       THEN /\ call' = [NoCall("step") EXCEPT !.agent_id = agent_id,
                            !.is_last = is_last, !.events = <<"AssertionError">>,
                            !.destroyed = Destroyed(hull)]
            /\ UNCHANGED <<cfg, train, hull, package, fallen_walkers, game_over,
                           prev_package_shaping, scroll, frames, np_random,
                           last_rewards, last_obs, last_dones, rewards, episode_ch0>>
       ELSE IF ~StepsWorld(is_last)
       THEN /\ call' = [NoCall("step") EXCEPT !.agent_id = agent_id,
                            !.is_last = is_last, !.action = action,
                            !.events = <<"apply_action">>,
                            !.destroyed = Destroyed(hull)]
            /\ UNCHANGED <<cfg, train, hull, package, fallen_walkers, game_over,
                           prev_package_shaping, scroll, frames, np_random,
                           last_rewards, last_obs, last_dones, rewards, episode_ch0>>
       ELSE /\ frames < MaxFrames
            /\ \E w \in WorldStep(hull, package, fallen_walkers, game_over) :
                 \E r \in {ScrollSubroutine(cfg, w.hull, w.package, w.fallen_walkers,
                                             w.game_over, prev_package_shaping, np_random)} :
                 LET global_reward == ShareRewards(r.rewards)
                 IN  /\ hull' = r.hull
                     /\ package' = w.package
                     /\ fallen_walkers' = w.fallen_walkers
                     /\ game_over' = w.game_over
                     /\ prev_package_shaping' = r.prev_package_shaping
                     /\ scroll' = r.scroll
                     /\ np_random' = r.rng
                     /\ last_obs' = r.obs
                     /\ rewards' = r.rewards
                     /\ last_rewards' = Blend(r.rewards, global_reward, cfg.local_ratio)
                     /\ last_dones' = r.done
                     /\ frames' = frames + 1
                     /\ call' = [NoCall("step") EXCEPT !.agent_id = agent_id,
                                 !.is_last = is_last, !.action = action,
                                 !.events = <<"apply_action", "world.Step",
                                              "scroll_subroutine">>,
                                 !.world_step = WorldStepArgs, !.read = r.read,
                                 !.destroyed = Destroyed(hull)]
                     /\ episode_ch0' =
                            [a \in Walkers |-> episode_ch0[a] + r.rewards[a][0]]
                     /\ UNCHANGED <<cfg, train>>

Next ==
    \/ Reset
    \/ \E seed \in Seeds : ResetSeeded(seed)
    \/ \E action \in Actions, agent_id \in Walkers, is_last \in BOOLEAN :
           Step(action, agent_id, is_last)

Spec == Init /\ [][Next]_vars

\* ---------------------------------------------------- iql.py: train, QAgent

NumIterations == 2
Agents == 0 .. 1
Sections == 0 .. 1
AgentActions == 0 .. 2

\* The beach domain under the wrapper: each agent stands in a section, an
\* action moves it left, not at all or right within the beach; reset places
\* the agents anew.  The observation of an agent is (type, section id,
\* capacity, consumption, share of its type).
EnvObservations(state) ==
    [a \in Agents |-> <<0, state[a], 1, Cardinality({b \in Agents : state[b] = state[a]}), 1>>]
EnvResetStates == [Agents -> Sections]
EnvStep(state, actions) ==
    [a \in Agents |->
        LET to == state[a] + actions[a] - 1
        IN  IF to < 0 THEN 0
            ELSE IF to > Cardinality(Sections) - 1 THEN Cardinality(Sections) - 1
            ELSE to]
\* The scalarised reward of an agent: 1 when it has its section to itself.
Utility(state, a) == IF \A b \in Agents \ {a} : state[b] # state[a] THEN 1 ELSE 0

\* TabularMOBeachDomainWrapper.step / reset (lines 77-138): the observation
\* is cut down to the section id, int(obs[1]).
SectionIds(observations) == [a \in Agents |-> observations[a][2]]

\* np.argmax(self.q_values[state]): the first index of the maximum.
ArgMax(row) ==
    CHOOSE k \in DOMAIN row :
        /\ \A j \in DOMAIN row : row[j] <= row[k]
        /\ \A j \in DOMAIN row : j < k => row[j] < row[k]
MaxOf(row) == row[ArgMax(row)]

\* QAgent.act (lines 164-172), for epsilon 0 (never explores) or 1 (always
\* does): the actions it can return.
Act(q, state, epsilon) ==
    IF epsilon > 0 THEN AgentActions ELSE {ArgMax(q[state])}

\* QAgent.update (lines 174-180).
Update(q, state, new_state, action, alpha, gamma, reward, done) ==
    LET q_value == q[state][action]
        next_max_q_value == IF done THEN 0 ELSE MaxOf(q[new_state])
    IN  [q EXCEPT ![state][action] =
            q_value + alpha * (reward + gamma * next_max_q_value - q_value)]

\* "if v > min: v *= decay else: v = min" (lines 216-219, 263-266).
Decay(v, decay, min) == IF v > min THEN v * decay ELSE min

\* train up to its loop (lines 183-206): the environment is reset, obs holds
\* what reset returned, the Q-tables are zero.  latest is the observation the
\* environment returned last; used and updated are the state each agent
\* acted on and the Q-table cell it wrote in the latest iteration.
InitTrain ==
    /\ call = NoCall("__init__")
    /\ np_random = 0
    /\ Constructed(Config(TRUE, TRUE, TRUE))
    /\ \E start \in EnvResetStates, epsilon \in {0, 1}, random \in BOOLEAN :
          train = [env |-> start,
                   obs |-> SectionIds(EnvObservations(start)),
                   latest |-> SectionIds(EnvObservations(start)),
                   q_values |-> [a \in Agents |-> [st \in Sections |->
                                   [k \in AgentActions |-> 0]]],
                   random |-> random, epsilon |-> epsilon, alpha |-> 1, gamma |-> 1,
                   current_iter |-> 0,
                   actions |-> <<>>, new_obs |-> <<>>, terminated |-> FALSE,
                   used |-> <<>>, updated |-> <<>>]

\* What the loop's body passes to the agents as their state (lines 213 and
\* 231): obs, which train assigns once, before the loop.
StateOf(obs, latest) == obs

\* The environment's reset at the end of an iteration (lines 269-270): its
\* return value is dropped.
ObsAfterReset(obs, returned) == obs

\* One iteration of "for current_iter in range(args.num_iterations)" (lines
\* 208-270); ends says whether the environment ended the episode.
TrainIteration ==
    /\ train # NoTrain
    /\ train.current_iter < NumIterations
    /\ \E actions \in [Agents -> AgentActions], ends \in BOOLEAN,
          restart \in EnvResetStates :
          LET state == StateOf(train.obs, train.latest)
              env1 == EnvStep(train.env, actions)
              new_obs == SectionIds(EnvObservations(env1))
              q1 == [a \in Agents |->
                        Update(train.q_values[a], state[a], new_obs[a], actions[a],
                               train.alpha, train.gamma, Utility(env1, a), ends)]
          IN  /\ \A a \in Agents :
                    actions[a] \in IF train.random THEN AgentActions
                                   ELSE Act(train.q_values[a], state[a], train.epsilon)
              /\ ~ends => restart = env1
              /\ train' = [train EXCEPT
                    !.actions = actions,
                    !.epsilon = Decay(train.epsilon, 1, 0),
                    !.new_obs = new_obs,
                    !.terminated = ends,
                    !.q_values = q1,
                    !.alpha = Decay(train.alpha, 1, 1),
                    !.env = restart,
                    !.obs = IF ends
                            THEN ObsAfterReset(train.obs, SectionIds(EnvObservations(restart)))
                            ELSE train.obs,
                    !.latest = IF ends THEN SectionIds(EnvObservations(restart))
                               ELSE new_obs,
                    !.used = state,
                    !.updated = [a \in Agents |-> <<state[a], actions[a]>>],
                    !.current_iter = train.current_iter + 1]
    /\ UNCHANGED <<cfg, hull, package, fallen_walkers, game_over,
                   prev_package_shaping, scroll, frames, np_random, last_rewards,
                   last_obs, last_dones, rewards, call, episode_ch0>>

NextTrain == TrainIteration

SpecTrain == InitTrain /\ [][NextTrain]_vars

SpecRatio == InitRatio /\ [][Next]_vars

SpecFall == InitFall /\ [][Next]_vars

SpecRemove == InitRemove /\ [][Next]_vars

SpecTerminate == InitTerminate /\ [][Next]_vars

\* ------------------------------------------------------------------- claims

\* The latest call was a step that completed a round (its is_last branch ran).
Round == call.op = "step" /\ Len(call.events) = 3

Range(s) == {s[k] : k \in DOMAIN s}

\* C1: with terminate_on_fall, a round in which any walker's fallen flag is
\* set returns done = True for every agent.
C1_AllDoneOnFall ==
    (Round /\ cfg.terminate_on_fall /\ \E i \in Walkers : fallen_walkers[i])
        => \A a \in Walkers : last_dones[a]

\* Only the second of three walkers has fallen, the package is short of the
\* finish, and all three are done.
C1_Witness ==
    /\ Round
    /\ cfg.terminate_on_fall
    /\ fallen_walkers = [i \in Walkers |-> i = 1]
    /\ ~game_over /\ package.x >= 0 /\ package.x <= FinishX
    /\ last_dones = [a \in Walkers |-> TRUE]

\* C2: the world advances only in a step called with is_last, exactly once
\* in that call, after the call's apply_action, with the constant arguments
\* (1/FPS, 180, 60), and that call completes a round (frames + 1); a step
\* with is_last false leaves the world alone.
C2_WorldStepOncePerRound ==
    [][call'.op = "step" =>
         /\ ("world.Step" \in Range(call'.events)
                => /\ call'.is_last
                   /\ call'.events = <<"apply_action", "world.Step", "scroll_subroutine">>
                   /\ call'.world_step = <<1, 180, 60>>
                   /\ frames' = frames + 1)
         /\ ("world.Step" \notin Range(call'.events)
                => /\ UNCHANGED <<hull, package, fallen_walkers, game_over, frames>>
                   /\ call'.world_step = <<>>)
         /\ (call'.is_last /\ hull[call'.agent_id] # None
                => "world.Step" \in Range(call'.events))
         /\ (~call'.is_last => "world.Step" \notin Range(call'.events))]_vars

\* Two rounds completed, the second one just now.
C2_Witness ==
    /\ Round /\ call.is_last /\ frames = 2
    /\ call.world_step = <<1, 180, 60>>

\* C3 (as claimed): after a round, global_reward[c] is the mean over the
\* agents of rewards[a][c] (both sides in units of 1/N).
C3_GlobalIsChannelMean ==
    Round => \A c \in Channels :
                ShareRewards(rewards)[c] = SumTo([a \in Walkers |-> rewards[a][c]], N - 1)

\* C4 (as claimed): every round writes forward_reward*package.x -
\* prev_package_shaping into channel 0 of every agent's row, and without a
\* fall or a package failure every row is [delta, 0, 0].
C4_ForwardDeltaInChannel0 ==
    [][(call'.op = "step" /\ Len(call'.events) = 3) =>
         LET delta == cfg.forward_reward * package'.x - prev_package_shaping
         IN  /\ \A a \in Walkers : rewards'[a][0] = delta
             /\ ((~game_over' /\ package'.x >= 0
                    /\ \A i \in Walkers : ~fallen_walkers'[i])
                   => \A a \in Walkers :
                        rewards'[a] = [c \in Channels |-> IF c = 0 THEN delta ELSE 0])]_vars

\* C5 (as claimed): for every agent, the channel-0 rewards of the episode's
\* rounds sum to forward_reward * (package x now - package x at reset).
C5_ForwardTelescopes ==
    package # None =>
        \A a \in Walkers :
            episode_ch0[a] = cfg.forward_reward * (package.x - PackageStartX)

\* C6: after a round, last_rewards[a][c] = g[c]*(1-r) + (raw[a][c]*r)*r
\* with g the global vector and r = local_ratio/RatioDen (both sides in
\* units of 1/(NumObjectives*RatioDen*RatioDen)).
C6_BlendAppliesRatioTwice ==
    Round => \A a \in Walkers, c \in Channels :
                last_rewards[a][c] =
                    ShareRewards(rewards)[c] * (RatioDen - cfg.local_ratio) * RatioDen
                    + NumObjectives * rewards[a][c] * cfg.local_ratio * cfg.local_ratio

\* A round under a local_ratio strictly between 0 and 1 with a non-zero raw
\* reward.
C6_Witness ==
    /\ Round
    /\ cfg.local_ratio = 3
    /\ rewards[0][0] # 0
    /\ last_rewards[0][0] # 0

\* C7: in a round entered with walker i destroyed, the observation row of i
\* is the zero vector of the observation shape and no reading of i's
\* position is taken; only reset brings the walker back.
C7_DestroyedObservesZeros ==
    [][\A i \in Walkers :
         /\ ((hull[i] = None /\ call'.op = "step" /\ Len(call'.events) = 3)
               => /\ last_obs'[i + 1] = [k \in 1 .. ObsLen |-> 0]
                  /\ i \notin call'.read)
         /\ ((hull[i] = None /\ call'.op = "step") => hull'[i] = None)]_vars

\* A second round, entered with walker 0 destroyed: its row is zero while
\* walker 1 is still observed.
C7_Witness ==
    /\ Round /\ frames = 2
    /\ hull[0] = None /\ hull[1] # None
    /\ last_obs[1] = [k \in 1 .. ObsLen |-> 0]
    /\ last_obs[2] # [k \in 1 .. ObsLen |-> 0]
    /\ call.read = {1, 2}

\* C8 (as claimed): a round entered with walker i destroyed does not put the
\* fall penalty into channel 1 of agent i's row again (with terminate_on_fall
\* set, line 206 never writes terminate_reward there).
C8_NoSecondFallPenalty ==
    [][\A i \in Walkers :
         (hull[i] = None /\ call'.op = "step" /\ Len(call'.events) = 3)
            => rewards'[i][1] # cfg.fall_reward]_vars

\* C9: a step for a destroyed walker, with is_last or without, fails on the
\* assertion: nothing is applied, the world is not advanced, and the engine
\* state stays as it was.
C9_DestroyedStepFails ==
    [][(call'.op = "step" /\ hull[call'.agent_id] = None)
         => /\ call'.events = <<"AssertionError">>
            /\ call'.action = <<>>
            /\ call'.world_step = <<>>
            /\ UNCHANGED <<frames, last_rewards, last_obs, last_dones, hull, package,
                           fallen_walkers, game_over, prev_package_shaping, scroll,
                           np_random, rewards>>]_vars

\* An is_last step for a destroyed walker has just failed.
C9_Witness ==
    /\ call.op = "step" /\ call.is_last
    /\ call.events = <<"AssertionError">>
    /\ hull[call.agent_id] = None

\* C10 (as claimed): in a round with game_over or package x < 0 every
\* agent's channel 2 is terminate_reward and channels 0 and 1 keep what was
\* computed for them (the forward delta; 0 or a fall penalty); otherwise
\* every agent's channel 2 is 0.
C10_PackagePenaltyInChannel2 ==
    [][(call'.op = "step" /\ Len(call'.events) = 3) =>
         LET delta == cfg.forward_reward * package'.x - prev_package_shaping
         IN  IF game_over' \/ package'.x < 0
             THEN \A a \in Walkers :
                     /\ rewards'[a][2] = cfg.terminate_reward
                     /\ rewards'[a][0] = delta
                     /\ rewards'[a][1] \in {0, cfg.fall_reward}
             ELSE \A a \in Walkers : rewards'[a][2] = 0]_vars

\* C11 (as claimed): with terminate_on_fall, in a round where some walker's
\* fallen flag is set, channel 1 of every flagged walker's row is fall_reward
\* and channel 1 of every other agent's row is 0.
C11_FallPenaltyToFallenOnly ==
    (Round /\ cfg.terminate_on_fall /\ \E i \in Walkers : fallen_walkers[i])
        => \A a \in Walkers :
              rewards[a][1] = IF fallen_walkers[a] THEN cfg.fall_reward ELSE 0

C13_FinishEndsWithoutPenalty ==
    (Round /\ ~game_over /\ package.x >= 0 /\ package.x > FinishX)
        => /\ \A a \in Walkers : last_dones[a]
           /\ \A a \in Walkers : rewards[a][2] # cfg.terminate_reward

\* The package has passed the finish with nobody fallen: all done, and the
\* rows carry the forward delta only.
C13_Witness ==
    /\ Round /\ ~game_over /\ package.x = FinishX + 1
    /\ \A i \in Walkers : ~fallen_walkers[i]
    /\ last_dones = [a \in Walkers |-> TRUE]
    /\ \A a \in Walkers : rewards[a][2] \in {0, 1}

\* C14: from construction on, through resets and steps, the reward matrix of
\* scroll_subroutine and the cached last_rewards have one row per walker and
\* NumObjectives entries per row, whoever has fallen or been destroyed.
C14_RewardShapes ==
    /\ DOMAIN rewards = Walkers
    /\ \A a \in Walkers : DOMAIN rewards[a] = Channels
    /\ DOMAIN last_rewards = Walkers
    /\ \A a \in Walkers : DOMAIN last_rewards[a] = Channels

\* A second round with two of the three walkers destroyed still has three
\* rows of three.
C14_Witness ==
    /\ Round /\ frames = 2
    /\ Cardinality(Destroyed(hull)) = 2
    /\ Cardinality(DOMAIN last_rewards) = 3
    /\ \A a \in Walkers : Cardinality(DOMAIN last_rewards[a]) = 3
    /\ \A a \in Walkers : Cardinality(DOMAIN rewards[a]) = 3

\* C15: after a reset, whatever state it was called in, every walker is
\* rebuilt at its start position and alive, the contact flags are clear,
\* frames is 0, last_dones is all False and last_rewards is n_walkers zero
\* vectors of length 3.
C15_ResetLeavesNothing ==
    call.op = "reset" =>
          /\ hull = Formation(0)
          /\ \A i \in Walkers : hull[i] # None /\ ~fallen_walkers[i]
          /\ ~game_over
          /\ package = Package(PackageStartX)
          /\ frames = 0
          /\ last_dones = [i \in Walkers |-> FALSE]
          /\ last_rewards = [a \in Walkers |-> [c \in Channels |-> 0]]
          /\ episode_ch0 = [a \in Walkers |-> 0]

\* A reset made when walkers 0 and 2 were destroyed.
C15_Witness ==
    /\ call.op = "reset" /\ call.destroyed = {0, 2}
    /\ \A i \in Walkers : hull[i] # None
    /\ frames = 0
    /\ last_rewards = [a \in Walkers |-> [c \in Channels |-> 0]]

NeighborEntries(row, side) ==
    LET first == Len(GetObservation(Body(0, 0))) + 2 * side + 1
    IN  <<row[first], row[first + 1]>>

\* C17: in every observation read (reset or round), for a walker i that is
\* alive, the slot of neighbor j = i - 1 or i + 1 is exactly [0, 0] when j is
\* outside 0 .. n_walkers - 1 or walker j is destroyed.
C17_NeighborPadding ==
    [][(call'.op = "reset" \/ (call'.op = "step" /\ Len(call'.events) = 3)) =>
         \A i \in Walkers, side \in {0, 1} :
            LET j == i - 1 + 2 * side
                alive(k) == call'.op = "reset" \/ hull[k] # None
            IN  (alive(i) /\ (j < 0 \/ j > N - 1 \/ ~alive(j)))
                   => NeighborEntries(last_obs'[i + 1], side) = <<0, 0>>]_vars

\* A round read with walker 1 destroyed: both slots of walker 0 and the left
\* slot of walker 2 are padding, the right slot of walker 2 too.
C17_Witness ==
    /\ Round /\ call.destroyed = {1}
    /\ last_obs[1] # ZeroObs /\ last_obs[3] # ZeroObs
    /\ NeighborEntries(last_obs[1], 0) = <<0, 0>>
    /\ NeighborEntries(last_obs[1], 1) = <<0, 0>>
    /\ NeighborEntries(last_obs[3], 0) = <<0, 0>>

\* C18 (as claimed): the constructed engine has as many walkers as
\* n_walkers says and the termination, removal and sharing settings that
\* were passed.
C18_ArgumentsConfigure ==
    call.op = "__init__" =>
        /\ Cardinality(DOMAIN hull) = call.args.n_walkers
        /\ cfg.terminate_on_fall = call.args.terminate_on_fall
        /\ cfg.remove_on_fall = call.args.remove_on_fall
        /\ cfg.local_ratio = IF call.args.shared_reward THEN 0 ELSE RatioDen

\* C19: a step with is_last false leaves frames, last_rewards, last_obs,
\* last_dones, prev_package_shaping, scroll and every walker's
\* alive/destroyed status as they were; a step changes any of them only with
\* is_last, and then frames grows by exactly 1.
C19_OnlyLastStepChanges ==
    [][call'.op = "step" =>
         LET same == /\ UNCHANGED <<frames, last_rewards, last_obs, last_dones,
                                    prev_package_shaping, scroll>>
                     /\ Destroyed(hull') = Destroyed(hull)
         IN  /\ (~call'.is_last => same)
             /\ (~same => call'.is_last /\ frames' = frames + 1)]_vars

\* A step with is_last false made after a round that left rewards behind.
C19_Witness ==
    /\ call.op = "step" /\ ~call.is_last /\ call.events = <<"apply_action">>
    /\ frames = 1
    /\ last_rewards # [a \in Walkers |-> [c \in Channels |-> 0]]
    /\ Destroyed(hull) = {2}

\* C20: within an episode a destroyed walker stays destroyed; a walker is
\* destroyed only in a round in which its own fallen flag is set and
\* remove_on_fall holds, and in every such round it is (or stays) destroyed;
\* without remove_on_fall no walker is destroyed.
C20_WalkerLifecycle ==
    [][call'.op = "step" =>
         \A i \in Walkers :
            /\ (hull[i] = None => hull'[i] = None)
            /\ ((hull[i] # None /\ hull'[i] = None)
                   => /\ Len(call'.events) = 3
                      /\ fallen_walkers'[i]
                      /\ cfg.remove_on_fall)
            /\ ((Len(call'.events) = 3 /\ fallen_walkers'[i] /\ cfg.remove_on_fall)
                   => hull'[i] = None)
            /\ (hull'[i] = None => fallen_walkers'[i])
            /\ (~cfg.remove_on_fall => hull'[i] # None)]_vars

\* Walker 1, destroyed in the first round, went through the fall loop of a
\* second round (flag still set) and is still destroyed.
C20_Witness ==
    /\ Round /\ frames = 2
    /\ cfg.remove_on_fall
    /\ call.destroyed = {1}
    /\ fallen_walkers[1]
    /\ Destroyed(hull) = {1}

\* C21: after a round, done[i] holds exactly when walker i's fallen flag is
\* set, or terminate_on_fall holds and some walker's flag is set, or the
\* package has not failed (game_over unset, x >= 0) and is past the finish.
C21_ExactDoneRule ==
    Round =>
        \A i \in Walkers :
            last_dones[i] <=>
                \/ fallen_walkers[i]
                \/ (cfg.terminate_on_fall /\ \E j \in Walkers : fallen_walkers[j])
                \/ (~game_over /\ package.x >= 0 /\ package.x > FinishX)

\* game_over with the package past the finish and nobody fallen: nobody is
\* done.
C21_Witness ==
    /\ Round /\ game_over /\ package.x > FinishX
    /\ \A i \in Walkers : ~fallen_walkers[i]
    /\ last_dones = [i \in Walkers |-> FALSE]

\* C22: after a round, with local_ratio 0 every agent's last_rewards row is
\* global_reward, and with local_ratio 1 every agent's row is its own row of
\* the reward matrix (both sides in units of
\* 1/(NumObjectives*RatioDen*RatioDen)).
C22_SharingAtZeroAndOne ==
    Round =>
        /\ (cfg.local_ratio = 0 =>
               \A a \in Walkers, c \in Channels :
                  last_rewards[a][c] = ShareRewards(rewards)[c] * RatioDen * RatioDen)
        /\ (cfg.local_ratio = RatioDen =>
               \A a \in Walkers, c \in Channels :
                  last_rewards[a][c] = rewards[a][c] * NumObjectives * RatioDen * RatioDen)

\* local_ratio 1 after a round whose rows differ: the cached rows differ the
\* same way.
C22_Witness ==
    /\ Round /\ cfg.local_ratio = RatioDen
    /\ rewards[0] # rewards[1]
    /\ last_rewards[0] # last_rewards[1]
    /\ last_rewards[1] = [c \in Channels |-> 0]
    /\ last_rewards[0][0] = rewards[0][0] * NumObjectives * RatioDen * RatioDen

\* C23 (as claimed): in every iteration of train, each agent acts on, and
\* writes the Q-table cell of, the observation the environment returned
\* last (the previous iteration's step, or the reset that followed it).
C23_ActsOnLatestObservation ==
    [][(train # NoTrain /\ train'.current_iter = train.current_iter + 1) =>
         \A a \in Agents :
            /\ train'.used[a] = train.latest[a]
            /\ train'.updated[a][1] = train.latest[a]]_vars

====
